---------------------------- MODULE Spec2Model ----------------------------
(***************************************************************************)
(* A model of cheapskate.py: the Instance class that switches EC2          *)
(* instances on and off from a "cheapskate" tag.                           *)
(*                                                                         *)
(* Two specifications are given.                                           *)
(*   Spec       the scheduling engine: the provider's instances and tags,  *)
(*              the uwsgi cache of the listing, the class-level _objects   *)
(*              snapshots and the operations of Instance.                  *)
(*   CodecSpec  the text of the cheapskate tag: Instance.save's join and   *)
(*              Instance.__init__'s strip and split, over character        *)
(*              sequences.                                                 *)
(*                                                                         *)
(* Time is counted in seconds since a Monday 00:00.  A stored timestamp    *)
(* (DATEFORMAT, minute precision) is the number of seconds of its minute;  *)
(* a text strptime rejects is a negative number.  Every dt.now() of one    *)
(* handler reads the same clock value.  Durations ("hours") are in seconds *)
(* so that fractional hours are exact.                                     *)
(***************************************************************************)
EXTENDS Integers, Sequences, FiniteSets, TLC

VARIABLES
    now,         \* the wall clock, dt.now()
    remote,      \* the provider: per instance its state code and cheapskate tag
    cacheAt,     \* when uwsgi cache "raw_aws" was set; NoCache when deleted
    hasObjects,  \* hasattr(cls, "_objects")
    objects,     \* cls._objects: instance id -> snapshot
    priceAsText, \* whether ec2prices.json holds pricePerUnit.USD as text
    last,        \* the last operation: its inputs, outcome and provider calls
    policy,      \* CodecSpec: self.cheapskate, an ordered mapping
    tagText,     \* CodecSpec: the cheapskate tag's value at the provider
    codecOp,     \* CodecSpec: the last codec step
    steps        \* the number of steps taken so far

vars == <<now, remote, cacheAt, hasObjects, objects, priceAsText, last,
          policy, tagText, codecOp, steps>>

engineVars ==
    <<now, remote, cacheAt, hasObjects, objects, priceAsText, last, steps>>
codecVars == <<policy, tagText, codecOp>>

-----------------------------------------------------------------------------
(* Bounds of the model *)

\* The number of steps (operations and clock advances) of a run.
MaxSteps == 2

\* The instances the provider lists: a first one and a later one.
Ids == { 1, 2 }

Hour == 3600
Day == 24 * Hour

At(d, h, m, s) == d * Day + h * Hour + m * 60 + s

\* The clock values the model visits: Friday before, inside, exactly at and
\* just after business hours, and a Saturday.
TimePoints ==
    { At(4, 6, 0, 0), At(4, 12, 0, 30), At(4, 18, 30, 0), At(4, 18, 30, 30),
      At(5, 12, 0, 0) }

\* Requested durations: 0 h, 6.9 h and 10 h.
HoursArgs == { 0, 24840, 10 * Hour }

\* Look-ahead of shutdown_due: 0 h and 6 h.
LookaheadArgs == { 0, 6 * Hour }

Users == { "alice" }

-----------------------------------------------------------------------------
(* Program constants *)

COSTTHRESHOLD == 20
BUSINESSHOURSTART == At(0, 6, 30, 0)
BUSINESSHOUREND == At(0, 18, 30, 0)
BUSINESSDAYSOFWEEK == 0 .. 4
CacheTTL == 60 * 15
Running == 16
Stopped == 80

\* Texts of the "off" and "req" values that strptime rejects.
EmptyStamp == -1
BadStamp == -2

NoCache == -1

\* The default policy, Instance.CHEAPSKATE.
CHEAPSKATE == [grp |-> "1", user |-> "", off |-> EmptyStamp, req |-> EmptyStamp]

\* pricePerUnit.USD of the instance's product in the catalog.  Whether the
\* catalog holds it as a number or as text (the code wraps it in float() on
\* lines 77 and 134 but not on line 135) is priceAsText.
PriceOf(i) == IF i % 2 = 1 THEN 5 ELSE 3

-----------------------------------------------------------------------------
(* Time helpers *)

\* dt.strftime(t, DATEFORMAT) read back: the seconds are dropped.
Strftime(t) == (t \div 60) * 60

\* Whether dt.strptime(v, DATEFORMAT) returns (TRUE) or raises ValueError.
Parses(v) == v >= 0

Weekday(t) == (t \div Day) % 7
TimeOfDay(t) == t % Day

\* uwsgi.cache_exists("raw_aws") at time t.
CacheExists(c, t) == c /= NoCache /\ t < c + CacheTTL


-----------------------------------------------------------------------------
(* The provider and the snapshots *)

Call(kind, i, ok) == [call |-> kind, id |-> i, ok |-> ok]

\* No provider call fails.
NoFail == <<"none", 0>>

\* The provider call that fails in an operation, if any: the start, the stop
\* or the tag write of one instance (subprocess.check_output raising).
Fails == { NoFail } \cup ({ "start", "stop", "tag" } \X Ids)

\* Instance.__init__: the snapshot of one entry of the listing.
NewInstance(r) ==
    [grp |-> r.tag.grp, user |-> r.tag.user, off |-> r.tag.off,
     req |-> r.tag.req, code |-> r.code]

\* The loop of Instance.objects over the listing.
Build(rem) == [i \in Ids |-> NewInstance(rem[i])]

\* Instance.objects: st is the state a handler works on.  On a cache miss
\* _objects is deleted, the listing is fetched and cached, and the snapshots
\* are rebuilt from it; on a hit the snapshots held are returned.
ObjectsOn(st, t) ==
    IF ~CacheExists(st.cacheAt, t)
    THEN [st EXCEPT !.cacheAt = t, !.hasObjects = TRUE,
                    !.objects = Build(st.remote)]
    ELSE IF st.hasObjects THEN st
    ELSE [st EXCEPT !.hasObjects = TRUE, !.objects = Build(st.remote)]

\* Instance.start: aws ec2 start-instances.
StartOn(st, i, fail) ==
    IF fail = <<"start", i>>
    THEN [st EXCEPT !.calls = Append(@, Call("start", i, FALSE)),
                    !.outcome = "ProviderCallError"]
    ELSE [st EXCEPT !.calls = Append(@, Call("start", i, TRUE)),
                    !.remote[i].code = Running]

\* The four recognised keys of a snapshot's cheapskate mapping, as written
\* to the tag by save and read back by __init__.  The engine's values (a
\* group, a user name, strftime's texts) hold no separator and no outer
\* whitespace; for such values the tag's text decodes to the items it was
\* written from (RoundTripOfTrimmed under CodecSpec), so the engine keeps
\* the tag as its items.
TagOf(inst) ==
    [grp |-> inst.grp, user |-> inst.user, off |-> inst.off, req |-> inst.req]

\* Instance.save: aws ec2 create-tags, then uwsgi.cache_del.
SaveOn(st, i, fail) ==
    IF fail = <<"tag", i>>
    THEN [st EXCEPT !.calls = Append(@, Call("tag", i, FALSE)),
                    !.outcome = "ProviderCallError"]
    ELSE [st EXCEPT !.calls = Append(@, Call("tag", i, TRUE)),
                    !.remote[i].tag = TagOf(st.objects[i]),
                    !.cacheAt = NoCache]

\* aws ec2 stop-instances in Instance.shutdown.
StopOn(st, i, fail) ==
    IF fail = <<"stop", i>>
    THEN [st EXCEPT !.calls = Append(@, Call("stop", i, FALSE)),
                    !.outcome = "ProviderCallError"]
    ELSE [st EXCEPT !.calls = Append(@, Call("stop", i, TRUE)),
                    !.remote[i].code = Stopped]

-----------------------------------------------------------------------------
(* Instance.update *)

\* The rejection test: the requested time is before the stored off time.
Rejected(off, reqtime) == Parses(off) /\ reqtime < off

\* The cost test of a request that is not a system start.
Capped(price, hours, sysstart) ==
    sysstart = 0 /\ price * (hours \div Hour) >= COSTTHRESHOLD

\* The off time of a capped request: now + COSTTHRESHOLD/price hours.
CappedOff(t, price) == Strftime(t + (COSTTHRESHOLD * Hour) \div price)

\* A slip: the time of the call is stored instead of the requested time.
ReqStamp_CallTime(t, hours) == Strftime(t)

\* The value update stores under "req".
ReqStamp(t, hours) == Strftime(t + hours)

UpdateOn(st, i, user, hours, sysstart, fail, t) ==
    LET inst == st.objects[i]
        reqtime == t + hours
        capped == Capped(PriceOf(i), hours, sysstart)
        s1 == [st EXCEPT !.objects[i].user = user,
                         !.objects[i].req = ReqStamp(t, hours)]
        s2 == [s1 EXCEPT !.objects[i].off =
                   IF capped THEN CappedOff(t, PriceOf(i))
                   ELSE Strftime(reqtime)]
        s3 == StartOn(s2, i, fail)
        s4 == IF s3.outcome = "ok" THEN SaveOn(s3, i, fail) ELSE s3
    IN  IF Rejected(inst.off, reqtime) THEN [st EXCEPT !.outcome = "False"]
        ELSE IF capped /\ priceAsText THEN [s1 EXCEPT !.outcome = "TypeError"]
        ELSE IF s4.outcome = "ok" THEN [s4 EXCEPT !.outcome = "True"]
        ELSE s4

-----------------------------------------------------------------------------
(* Instance.shutdown *)

\* A slip: an off time equal to the clock counts as passed.
OffPassed_OrEqual(off, t) == off <= t

\* The comparison of the stored off time with the clock.
OffPassed(off, t) == off < t

ShutdownOn(st, i, fail, t) ==
    LET inst == st.objects[i]
        s1 == StopOn(st, i, fail)
        s2 == IF s1.outcome = "ok" THEN SaveOn(s1, i, fail) ELSE s1
    IN  IF inst.grp = "1" THEN [st EXCEPT !.outcome = "False"]
        ELSE IF inst.grp = "0" \/ inst.grp = "2"
        THEN IF ~Parses(inst.off) THEN [st EXCEPT !.outcome = "ValueError"]
             ELSE IF OffPassed(inst.off, t)
             THEN IF s2.outcome = "ok" THEN [s2 EXCEPT !.outcome = "Stopped"]
                  ELSE s2
             ELSE [st EXCEPT !.outcome = "Deferred", !.off = inst.off]
        ELSE [st EXCEPT !.outcome = "None"]

-----------------------------------------------------------------------------
(* Instance.shutdown_due *)

\* A slip: the group is not looked at.
IsDue_AnyGroup(inst, t, hours) ==
    /\ inst.code = Running
    /\ Parses(inst.off)
    /\ inst.off < t + hours

\* Whether shutdown_due puts a snapshot into its result.
IsDue(inst, t, hours) ==
    /\ inst.grp /= "1"
    /\ inst.code = Running
    /\ Parses(inst.off)
    /\ inst.off < t + hours

-----------------------------------------------------------------------------
(* Instance.start_business_hours *)

\* hours = (dtend - dt.now()).seconds / 3600, kept in seconds.
HoursRemaining(t) == (TimeOfDay(BUSINESSHOUREND) - TimeOfDay(t)) % Day

\* The three early returns.
OutsideBusinessHours(t) ==
    \/ Weekday(t) \notin BUSINESSDAYSOFWEEK
    \/ TimeOfDay(t) < TimeOfDay(BUSINESSHOURSTART)
    \/ TimeOfDay(t) > TimeOfDay(BUSINESSHOUREND)

\* The snapshots in the order the loops visit them.
IdSeq == [k \in 1 .. Cardinality(Ids) |-> k]

RECURSIVE StartLoop(_, _, _, _, _)
StartLoop(st, ids, hours, fail, t) ==
    IF ids = << >> THEN st
    ELSE LET i == Head(ids)
             inst == st.objects[i]
             s1 == [st EXCEPT !.results = Append(@, i)]
             s2 == UpdateOn(s1, i, "Cheapskate", hours, 1, fail, t)
         IN  IF inst.grp /= "2" \/ inst.code /= Stopped
             THEN StartLoop(st, Tail(ids), hours, fail, t)
             ELSE IF s2.outcome \in { "True", "False" }
             THEN StartLoop([s2 EXCEPT !.outcome = "ok"], Tail(ids), hours,
                            fail, t)
             ELSE s2

\* The loop of Instance.save_all.
RECURSIVE SaveLoop(_, _, _)
SaveLoop(st, ids, fail) ==
    IF ids = << >> THEN st
    ELSE LET s1 == SaveOn(st, Head(ids), fail)
         IN  IF s1.outcome = "ok" THEN SaveLoop(s1, Tail(ids), fail) ELSE s1


-----------------------------------------------------------------------------
(* Instance.tag_instance *)

\* The tag names tag_instance is called with: the policy tag and another.
TagNames == { "cheapskate", "Owner" }

\* The cheapskate values tag_instance writes, as __init__ decodes them:
\* "grp=0/off=soon" and "grp=3".
TagValues ==
    { [CHEAPSKATE EXCEPT !.grp = "0", !.off = BadStamp],
      [CHEAPSKATE EXCEPT !.grp = "3"] }

\* aws ec2 create-tags with the given key and value; the cache is left alone.
TagInstanceOn(st, i, tagName, tagValue, fail) ==
    IF fail = <<"tag", i>>
    THEN [st EXCEPT !.calls = Append(@, Call("tag", i, FALSE)),
                    !.outcome = "ProviderCallError"]
    ELSE [st EXCEPT !.calls = Append(@, Call("tag", i, TRUE)),
                    !.remote[i].tag =
                        IF tagName = "cheapskate" THEN tagValue ELSE @,
                    !.outcome = "Returned"]

-----------------------------------------------------------------------------
(* The engine's state machine *)

Groups == { "0", "1", "2" }

\* The off times the provider's tags hold at the start: none, Friday 10:00
\* and Friday 18:30.
InitOffs == { EmptyStamp, At(4, 10, 0, 0), At(4, 18, 30, 0) }

\* The later instances start as a stopped Business Hours instance with no
\* off time or as a running Default Off instance due since Friday 10:00; the
\* first instance starts in every combination.
LaterInstances ==
    { [code |-> Stopped, tag |-> [CHEAPSKATE EXCEPT !.grp = "2"]],
      [code |-> Running,
       tag |-> [CHEAPSKATE EXCEPT !.grp = "0", !.off = At(4, 10, 0, 0)]] }

NoOp ==
    [op |-> "none", id |-> 0, user |-> "", hours |-> 0, sys |-> 0,
     outcome |-> "ok", results |-> << >>, due |-> {}, off |-> 0,
     calls |-> << >>]

\* The state a handler starts from.
Begin ==
    [remote |-> remote, cacheAt |-> cacheAt, hasObjects |-> hasObjects,
     objects |-> objects, calls |-> << >>, outcome |-> "ok",
     results |-> << >>, off |-> 0]

\* The state a handler leaves, and what it did.
Finish(st, rec) ==
    /\ steps' = steps + 1
    /\ remote' = st.remote
    /\ cacheAt' = st.cacheAt
    /\ hasObjects' = st.hasObjects
    /\ objects' = st.objects
    /\ last' = [rec EXCEPT !.outcome = st.outcome, !.results = st.results,
                           !.off = st.off, !.calls = st.calls]
    /\ UNCHANGED <<now, priceAsText, codecVars>>

EngineInit ==
    /\ now \in TimePoints
    /\ remote \in [Ids -> [code : { Running, Stopped },
                           tag : [grp : Groups, user : { "" },
                                  off : InitOffs, req : { EmptyStamp }]]]
    /\ \A i \in Ids \ { 1 } : remote[i] \in LaterInstances
    /\ cacheAt = NoCache
    /\ hasObjects = FALSE
    /\ objects = [i \in Ids |-> NewInstance([code |-> Stopped,
                                             tag |-> CHEAPSKATE])]
    /\ priceAsText \in BOOLEAN
    /\ last = NoOp
    /\ steps = 0

\* Time passes.
Tick ==
    /\ steps < MaxSteps
    /\ steps' = steps + 1
    /\ \E t \in TimePoints : t > now /\ now' = t
    /\ last' = NoOp
    /\ UNCHANGED <<remote, cacheAt, hasObjects, objects, priceAsText,
                   codecVars>>

\* Instance.objects, as objects_list calls it.
Objects ==
    /\ steps < MaxSteps
    /\ Finish(ObjectsOn(Begin, now), [NoOp EXCEPT !.op = "objects"])

SaveAll ==
    /\ steps < MaxSteps
    /\ \E fail \in { NoFail } \cup ({ "tag" } \X Ids) :
        Finish(SaveLoop(ObjectsOn(Begin, now), IdSeq, fail),
               [NoOp EXCEPT !.op = "save_all"])

ShutdownDue ==
    /\ steps < MaxSteps
    /\ \E hours \in LookaheadArgs :
        LET st == ObjectsOn(Begin, now)
        IN  Finish(st, [NoOp EXCEPT
                !.op = "shutdown_due", !.hours = hours,
                !.due = { i \in Ids : IsDue(st.objects[i], now, hours) }])

StartBusinessHours ==
    /\ steps < MaxSteps
    /\ \E fail \in { NoFail } \cup ({ "start", "tag" } \X Ids) :
        LET st == StartLoop(ObjectsOn(Begin, now), IdSeq,
                            HoursRemaining(now), fail, now)
            rec == [NoOp EXCEPT !.op = "start_business_hours", !.sys = 1,
                                !.hours = HoursRemaining(now)]
        IN  IF OutsideBusinessHours(now)
            THEN Finish([Begin EXCEPT !.outcome = "False"], rec)
            ELSE IF st.outcome = "ok"
            THEN Finish([st EXCEPT !.outcome = "Returned"], rec)
            ELSE Finish([st EXCEPT !.results = << >>], rec)

Update ==
    /\ steps < MaxSteps
    /\ hasObjects
    /\ \E i \in Ids, user \in Users, hours \in HoursArgs, sysstart \in { 0, 1 },
          fail \in { NoFail } \cup ({ "start", "tag" } \X Ids) :
        /\ fail[2] \in { 0, i }
        /\ Finish(UpdateOn(Begin, i, user, hours, sysstart, fail, now),
                  [NoOp EXCEPT !.op = "update", !.id = i, !.user = user,
                               !.hours = hours, !.sys = sysstart])

Shutdown ==
    /\ steps < MaxSteps
    /\ hasObjects
    /\ \E i \in Ids, fail \in { NoFail } \cup ({ "stop", "tag" } \X Ids) :
        /\ fail[2] \in { 0, i }
        /\ Finish(ShutdownOn(Begin, i, fail, now),
                  [NoOp EXCEPT !.op = "shutdown", !.id = i])

TagInstance ==
    /\ steps < MaxSteps
    /\ hasObjects
    /\ \E i \in Ids, tagName \in TagNames, tagValue \in TagValues,
          fail \in { NoFail } \cup ({ "tag" } \X Ids) :
        /\ fail[2] \in { 0, i }
        /\ Finish(TagInstanceOn(Begin, i, tagName, tagValue, fail),
                  [NoOp EXCEPT !.op = "tag_instance", !.id = i,
                               !.user = tagName])

EngineNext ==
    \/ Tick
    \/ Objects
    \/ SaveAll
    \/ ShutdownDue
    \/ StartBusinessHours
    \/ Update
    \/ Shutdown
    \/ TagInstance

CodecIdle ==
    /\ policy = << >>
    /\ tagText = << >>
    /\ codecOp = "none"

Init == EngineInit /\ CodecIdle

Next == EngineNext

Spec == Init /\ [][Next]_vars


-----------------------------------------------------------------------------
(* Claims about the scheduling engine, checked under Spec *)

\* The snapshot the last operation acted on.
LastInst == objects[last.id]

Raised == { "ValueError", "TypeError", "ProviderCallError" }

Issued(kind, i) ==
    \E k \in 1 .. Len(last.calls) :
        last.calls[k].call = kind /\ last.calls[k].id = i

Failed(i) ==
    \E k \in 1 .. Len(last.calls) :
        last.calls[k].id = i /\ ~last.calls[k].ok

\* C1: an update never moves a parseable stored off time to an earlier time:
\* the off time after the call is not before the off time before it.
C1_NeverShortens ==
    [][\A i \in Ids :
          (last'.op = "update" /\ last'.id = i /\ Parses(objects[i].off))
              => objects'[i].off >= objects[i].off]_vars

\* C2: an accepted update stores now + COSTTHRESHOLD/price when it is not a
\* system start and price * hours >= COSTTHRESHOLD, with hours taken as given
\* (fractions included), and now + hours in every other case.
C2_DeadlineRule ==
    (last.op = "update" /\ last.outcome = "True") =>
        LastInst.off =
            IF last.sys = 0
               /\ PriceOf(last.id) * last.hours >= COSTTHRESHOLD * Hour
            THEN Strftime(now + (COSTTHRESHOLD * Hour) \div PriceOf(last.id))
            ELSE Strftime(now + last.hours)

\* C3: an operation that returns normally after a start, a stop or a tag
\* write leaves no cached listing behind.
C3_WriteInvalidatesCache ==
    (last.outcome \notin Raised /\ last.calls /= << >>)
        => ~CacheExists(cacheAt, now)

\* C4: shutdown_due, shutdown and update never end in the ValueError of an
\* off time that does not parse.
C4_UnparseableOffIsNoError ==
    last.op \in { "shutdown_due", "shutdown", "update" }
        => last.outcome /= "ValueError"

\* C5: when a provider call fails for one instance in start_business_hours,
\* every later stopped Business Hours instance is still started.
C5_FailureIsPerInstance ==
    last.op = "start_business_hours" =>
        \A i, j \in Ids :
            (i < j /\ Failed(i) /\ objects[j].grp = "2"
                   /\ objects[j].code = Stopped)
                => Issued("start", j)

\* C6: on Saturday and Sunday, before BUSINESSHOURSTART, and at or after
\* BUSINESSHOUREND, start_business_hours returns no ids and calls nothing.
C6_HalfOpenWindow ==
    (/\ last.op = "start_business_hours"
     /\ \/ Weekday(now) \notin BUSINESSDAYSOFWEEK
        \/ TimeOfDay(now) < TimeOfDay(BUSINESSHOURSTART)
        \/ TimeOfDay(now) >= TimeOfDay(BUSINESSHOUREND))
        => last.results = << >> /\ last.calls = << >>

\* C7: shutdown_due(hours) returns exactly the snapshots whose group is not
\* "1", whose state code is 16 and whose off time parses and is strictly
\* before now + hours.
C7_ShutdownDueExact ==
    last.op = "shutdown_due" =>
        /\ \A i \in last.due :
              /\ objects[i].grp /= "1"
              /\ objects[i].code = Running
              /\ objects[i].off >= 0
              /\ objects[i].off < now + last.hours
        /\ \A i \in Ids \ last.due :
              \/ objects[i].grp = "1"
              \/ objects[i].code /= Running
              \/ objects[i].off < 0
              \/ objects[i].off >= now + last.hours

\* C7's case: a running Default Off instance is returned while a running
\* Default On instance whose off time has passed is not.
C7_Witness ==
    /\ last.op = "shutdown_due"
    /\ \E i \in last.due : objects[i].grp = "0"
    /\ \E i \in Ids \ last.due :
          /\ objects[i].grp = "1"
          /\ objects[i].code = Running
          /\ Parses(objects[i].off)
          /\ objects[i].off < now

\* C8: shutdown issues a stop exactly when the group is "0" or "2" and the
\* off time parses and is strictly before now; a stop that succeeds is
\* followed by the tag write, and when both succeed the tag holds the policy
\* and the outcome is Stopped.  With the off time at or after now the outcome
\* is Deferred with the stored off time, with group "1" it is False, and in
\* both cases nothing is called.
C8_ShutdownDecision ==
    last.op = "shutdown" =>
        LET eligible == LastInst.grp \in { "0", "2" }
            passed == LastInst.off >= 0 /\ LastInst.off < now
        IN  /\ Issued("stop", last.id) <=> (eligible /\ passed)
            /\ (eligible /\ passed /\ ~Failed(last.id)) =>
                  /\ last.outcome = "Stopped"
                  /\ last.calls = << Call("stop", last.id, TRUE),
                                     Call("tag", last.id, TRUE) >>
                  /\ remote[last.id].tag = TagOf(LastInst)
                  /\ remote[last.id].code = Stopped
            /\ (eligible /\ passed /\ Failed(last.id)) =>
                  last.outcome = "ProviderCallError"
            /\ (eligible /\ LastInst.off >= now) =>
                  /\ last.outcome = "Deferred"
                  /\ last.off = LastInst.off
                  /\ last.calls = << >>
            /\ LastInst.grp = "1" =>
                  last.outcome = "False" /\ last.calls = << >>

\* C8's cases: a stop of a Default Off instance whose off time has passed,
\* seen at the very minute another off time is reached.
C8_Witness ==
    /\ last.op = "shutdown"
    /\ last.outcome = "Stopped"
    /\ LastInst.grp = "0"
    /\ Issued("stop", last.id)

CacheImpliesObjects == CacheExists(cacheAt, now) => hasObjects


-----------------------------------------------------------------------------
(* The text of the cheapskate tag *)

(***************************************************************************)
(* A text is a sequence of symbols.  "/", "=" and " " are the characters   *)
(* the code splits and strips on; every other symbol ("grp", "a", ...)     *)
(* stands for a run of characters that holds none of the three.  A mapping *)
(* is kept as its items in insertion order, as a Python dict keeps them.   *)
(***************************************************************************)

\* The longest value text the model writes.
MaxLen == 2

ValueChars == { "a", " " }

\* The value texts: every text over ValueChars up to MaxLen symbols.
Values == UNION { [1 .. n -> ValueChars] : n \in 0 .. MaxLen }

Item(k, v) == [key |-> k, value |-> v]

\* Instance.CHEAPSKATE as items.
CheapskateItems ==
    << Item(<<"grp">>, <<"1">>), Item(<<"user">>, << >>),
       Item(<<"off">>, << >>), Item(<<"req">>, << >>) >>

\* Instance.CHEAPSKATE.keys()
CheapskateKeys == { CheapskateItems[k].key : k \in 1 .. Len(CheapskateItems) }

\* str.strip(): leading and trailing whitespace is dropped.
RECURSIVE Strip(_)
Strip(s) ==
    IF s = << >> THEN s
    ELSE IF Head(s) = " " THEN Strip(Tail(s))
    ELSE IF s[Len(s)] = " " THEN Strip(SubSeq(s, 1, Len(s) - 1))
    ELSE s

\* str.split(sep): the pieces between the separators, empty ones kept.
RECURSIVE Split(_, _)
Split(s, sep) ==
    IF \A k \in 1 .. Len(s) : s[k] /= sep THEN << s >>
    ELSE LET k == CHOOSE n \in 1 .. Len(s) :
                      s[n] = sep /\ \A m \in 1 .. n - 1 : s[m] /= sep
         IN  << SubSeq(s, 1, k - 1) >> \o Split(SubSeq(s, k + 1, Len(s)), sep)

\* sep.join(pieces)
RECURSIVE Join(_, _)
Join(pieces, sep) ==
    IF pieces = << >> THEN << >>
    ELSE IF Len(pieces) = 1 THEN pieces[1]
    ELSE pieces[1] \o << sep >> \o Join(Tail(pieces), sep)

\* d[key] = value on an ordered mapping: a key held keeps its place, a new
\* key goes last.
SetItem(items, k, v) ==
    IF \E n \in 1 .. Len(items) : items[n].key = k
    THEN [n \in 1 .. Len(items) |->
              IF items[n].key = k THEN Item(k, v) ELSE items[n]]
    ELSE Append(items, Item(k, v))

\* dict.update(dict(pairs)), each pair a two-piece split.
RECURSIVE DictUpdate(_, _)
DictUpdate(items, pairs) ==
    IF pairs = << >> THEN items
    ELSE DictUpdate(SetItem(items, pairs[1][1], pairs[1][2]), Tail(pairs))

\* Instance.__init__ on the cheapskate tag's value: the defaults, overlaid
\* with the key=value entries of the stripped value.  dict() raises
\* ValueError (ok FALSE) on an entry that does not split in two.
Decode(raw) ==
    LET text == Strip(raw)
        pairs == [n \in 1 .. Len(Split(text, "/")) |->
                      Split(Split(text, "/")[n], "=")]
    IN  IF text = << >> THEN [ok |-> TRUE, items |-> CheapskateItems]
        ELSE IF \E n \in 1 .. Len(pairs) : Len(pairs[n]) /= 2
        THEN [ok |-> FALSE, items |-> CheapskateItems]
        ELSE [ok |-> TRUE, items |-> DictUpdate(CheapskateItems, pairs)]

\* The items of a mapping whose key is one of Instance.CHEAPSKATE's.
Recognised(items) == SelectSeq(items, LAMBDA it : it.key \in CheapskateKeys)

\* Instance.save: the value written to the cheapskate tag.
Encode(items) ==
    Join([n \in 1 .. Len(Recognised(items)) |->
              Recognised(items)[n].key \o << "=" >> \o Recognised(items)[n].value],
         "/")

\* The keys Instance.as_dict adds to self.cheapskate.
AsDictKeys ==
    << <<"name">>, <<"id">>, <<"status">>, <<"type">>, <<"launchtime">>,
       <<"hourlycost">>, <<"product">> >>

RECURSIVE AddKeys(_, _)
AddKeys(items, keys) ==
    IF keys = << >> THEN items
    ELSE AddKeys(SetItem(items, Head(keys), <<"a">>), Tail(keys))

\* The keys of the tag values found at the provider.
RawKeys == { "grp", "req", "x" }

RawEntries == { << k, "=" >> \o v : k \in RawKeys, v \in Values }

\* The tag values found at the provider: none, one entry, two entries, and
\* two that do not decode ("grp" and "grp=a=a").
RawTags ==
    { << >>, << "grp" >>, << "grp", "=", "a", "=", "a" >> }
        \cup RawEntries
        \cup { e1 \o << "/" >> \o e2 : e1 \in RawEntries, e2 \in RawEntries }

-----------------------------------------------------------------------------
(* The codec's state machine *)

EngineIdle ==
    /\ now = At(4, 6, 0, 0)
    /\ remote = [i \in Ids |-> [code |-> Stopped, tag |-> CHEAPSKATE]]
    /\ cacheAt = NoCache
    /\ hasObjects = FALSE
    /\ objects = Build(remote)
    /\ priceAsText = FALSE
    /\ last = NoOp
    /\ steps = 0

CodecInit ==
    /\ policy = CheapskateItems
    /\ tagText \in RawTags
    /\ codecOp = "none"
    /\ EngineIdle

\* Instance.__init__: the snapshot's mapping is decoded from the tag.
CodecNew ==
    /\ codecOp' = IF Decode(tagText).ok THEN "new" ELSE "ValueError"
    /\ policy' = Decode(tagText).items
    /\ UNCHANGED <<tagText, engineVars>>

\* Instance.update: the user is given by the caller, the two times are
\* strftime's texts.
CodecUpdate ==
    \E user \in Values :
        /\ policy' = SetItem(SetItem(SetItem(policy, <<"user">>, user),
                                     <<"req">>, <<"t">>),
                             <<"off">>, <<"t">>)
        /\ codecOp' = "update"
        /\ UNCHANGED <<tagText, engineVars>>

\* Instance.as_dict: data is self.cheapskate itself, so the mapping gains
\* the listing's keys.
CodecAsDict ==
    /\ policy' = AddKeys(policy, AsDictKeys)
    /\ codecOp' = "as_dict"
    /\ UNCHANGED <<tagText, engineVars>>

\* Instance.save: the mapping is encoded into the tag.
CodecSave ==
    /\ tagText' = Encode(policy)
    /\ codecOp' = "save"
    /\ UNCHANGED <<policy, engineVars>>

CodecNext ==
    \/ CodecNew
    \/ CodecUpdate
    \/ CodecAsDict
    \/ CodecSave

CodecSpec == CodecInit /\ [][CodecNext]_vars

-----------------------------------------------------------------------------
(* Claims about the codec, checked under CodecSpec *)

HasNoSeparator(items) ==
    \A n \in 1 .. Len(items) :
        \A k \in 1 .. Len(items[n].value) :
            items[n].value[k] \notin { "/", "=" }

\* C10: for a mapping whose values hold neither "/" nor "=", decoding the
\* tag that save wrote gives the mapping's four recognised items again, and
\* the tag holds the four recognised keys only.
C10_RoundTrip ==
    (codecOp = "save" /\ HasNoSeparator(policy)) =>
        /\ Decode(tagText).ok
        /\ Decode(tagText).items = Recognised(policy)
        /\ \A n \in 1 .. Len(Split(tagText, "/")) :
              Split(Split(tagText, "/")[n], "=")[1] \in CheapskateKeys

\* The part of C10 that holds: save writes the four recognised keys and no
\* other, whatever keys the mapping holds.
EncodeWritesRecognisedKeys ==
    codecOp = "save" =>
        [n \in 1 .. Len(Split(tagText, "/")) |->
             Split(Split(tagText, "/")[n], "=")[1]]
            = << <<"grp">>, <<"user">>, <<"off">>, <<"req">> >>

\* The round trip holds for a mapping whose last written value has no
\* trailing whitespace: this is the case of every mapping the engine
\* writes, whose "req" is a strftime text.
RoundTripOfTrimmed ==
    (codecOp = "save"
     /\ Recognised(policy)[4].value = Strip(Recognised(policy)[4].value))
        => Decode(tagText) = [ok |-> TRUE, items |-> Recognised(policy)]

=============================================================================
